---- MODULE Spec2Model ----
(***************************************************************************)
(* State-machine model of the FlowAgility event scraper.                   *)
(*                                                                         *)
(*   Spec      flow_events.py: main / extract_events driving the           *)
(*             EventStreamer (stream log, snapshots, uploads), over        *)
(*             several runs of the process on the same output directory.   *)
(*   SpecPast  01EventosPast.py: main / _handle_pagination, and the        *)
(*             _ensure_logged_in helper.                                   *)
(*   SpecExtract  the record each script builds from one container.        *)
(*   SpecScroll   _full_scroll of either script.                           *)
(***************************************************************************)
EXTENDS Integers, Sequences, FiniteSets, TLC

\* ------------------------------------------------------------------ bounds
MaxContainers == 2      \* containers found on the events page
MaxClock == 4           \* wall-clock seconds the model lets pass
MaxLines == 2           \* lines the disk holds before a write to the log fails
MaxEvery == 2           \* largest SNAPSHOT_EVERY value tried
DayLen == 2             \* seconds per calendar day (scaled)
MaxPerPage == 1         \* containers found on one page of past events
MaxTries == 3           \* largest max_tries handed to _ensure_logged_in
MaxSmalls == 2          \* <div class="text-xs ..."> nodes inside one container
MaxHeight == 2          \* largest document.body.scrollHeight read
MaxScrollsEnv == 2      \* largest MAX_SCROLLS set through the environment

\* ------------------------------------------------------ program constants
STRICT_MISSING_UPLOADER == FALSE
LoginSleep == 2         \* _login: slow_pause(2, 4) after loading the login page
max_pages == 50         \* _handle_pagination: max_pages = 50
MAX_SCROLLS_flow == 15  \* flow_events.py: int(os.getenv("MAX_SCROLLS", "15"))
MAX_SCROLLS_past == 10  \* 01EventosPast.py: MAX_SCROLLS = 10
BASE == "https://www.flowagility.com"

\* ------------------------------------------------------------ input sets
\* The record a container yields, or "bad": a container whose parsing raises.
Records == {"r1", "r2"}
ContainerKinds == Records \cup {"bad"}
\* scripts/upload_event.sh: missing, exit 0, exit non-zero, cannot be launched.
UploadOutcomes == {"absent", "ok", "nonzero", "nolaunch"}
\* gzip.open(snap_path) / stream_file.open("rb") inside _make_snapshot.
SnapOutcomes == {"ok", "openfail", "readfail"}
\* open(stream_file, "a") + write.
WriteOutcomes == {"ok", "fail"}
\* What one _login call of flow_events.py runs into.
LoginOutcomes == {"already", "nofield", "nocreds", "redirected", "still_login",
                  "timeout", "error"}

SeqsUpTo(S, n) == UNION {[1..k -> S] : k \in 0..n}
Range(s) == {s[k] : k \in DOMAIN s}
IsPrefix(s, t) == Len(s) <= Len(t) /\ SubSeq(t, 1, Len(s)) = s
Max(a, b) == IF a >= b THEN a ELSE b
NoFiles == [t \in {} |-> <<>>]

\* ------------------------------------------------------------- utilities
_ts_day(t) == t \div DayLen
_ts_full(t) == t

\* json.dumps(event) + "\n": one line of the stream file.
json_line(ev) == [json |-> ev]

\* Mutant: no try/except around subprocess.run.
_safe_run_unguarded(outcome) ==
    IF outcome = "ok" THEN [rc |-> 0, raised |-> FALSE]
    ELSE IF outcome = "nonzero" THEN [rc |-> 2, raised |-> FALSE]
    ELSE [rc |-> 1, raised |-> TRUE]

_safe_run(outcome) ==
    IF outcome = "ok" THEN [rc |-> 0, raised |-> FALSE]
    ELSE IF outcome = "nonzero" THEN [rc |-> 2, raised |-> FALSE]
    ELSE [rc |-> 1, raised |-> FALSE]

\* ---------------------------------------------------------- EventStreamer
\* Mutant: the stream file is opened for writing, which empties it.
InitStream_truncate(exists, lg) == <<>>

\* __init__: the stream file is created empty only when it does not exist.
InitStream(exists, lg) == IF exists THEN lg ELSE <<>>

\* __init__ raises when the directory or the file cannot be created, or, in
\* strict mode, when the uploader is missing.
InitOutcome(io, up) ==
    IF io = "fail" THEN "OSError"
    ELSE IF up = "absent" /\ STRICT_MISSING_UPLOADER THEN "FileNotFoundError"
    ELSE "ok"

\* Mutant: only the line just written is handed to the uploader.
_upload_stream_delta(up, lg, t) ==
    IF up = "absent" THEN [ups |-> <<>>, raised |-> FALSE]
    ELSE LET r == _safe_run(up) IN
         [ups |-> << [path |-> "stream", name |-> <<"events_stream", _ts_day(t)>>,
                      content |-> <<lg[Len(lg)]>>, rc |-> r.rc] >>,
          raised |-> r.raised]

_upload_stream(up, lg, t) ==
    IF up = "absent" THEN [ups |-> <<>>, raised |-> FALSE]
    ELSE LET r == _safe_run(up) IN
         [ups |-> << [path |-> "stream", name |-> <<"events_stream", _ts_day(t)>>,
                      content |-> lg, rc |-> r.rc] >>,
          raised |-> r.raised]

\* Mutant: the snapshot misses the line written last.
_make_snapshot_stale(files, lg, t, sn) ==
    LET name == _ts_full(t)
        old == SubSeq(lg, 1, Len(lg) - 1)
        put(c) == [n \in DOMAIN files \cup {name} |->
                     IF n = name THEN c ELSE files[n]]
    IN IF sn = "openfail" THEN [files |-> files, path |-> name, raised |-> TRUE]
       ELSE IF sn = "readfail" THEN [files |-> put(<<>>), path |-> name, raised |-> TRUE]
       ELSE [files |-> put(old), path |-> name, raised |-> FALSE]

\* The snapshot file is opened (created or truncated) before the stream file
\* is read.
_make_snapshot(files, lg, t, sn) ==
    LET name == _ts_full(t)
        put(c) == [n \in DOMAIN files \cup {name} |->
                     IF n = name THEN c ELSE files[n]]
    IN IF sn = "openfail" THEN [files |-> files, path |-> name, raised |-> TRUE]
       ELSE IF sn = "readfail" THEN [files |-> put(<<>>), path |-> name, raised |-> TRUE]
       ELSE [files |-> put(lg), path |-> name, raised |-> FALSE]

_upload_snapshot(up, files, path) ==
    IF up = "absent" THEN [ups |-> <<>>, raised |-> FALSE]
    ELSE LET r == _safe_run(up) IN
         [ups |-> << [path |-> "snap", name |-> <<"snapshot", path>>,
                      content |-> files[path], rc |-> r.rc] >>,
          raised |-> r.raised]

\* Mutant: a record already in the log is not written again.
AddWrite_dedup(lg, ev) ==
    IF json_line(ev) \in Range(lg) THEN lg ELSE Append(lg, json_line(ev))

\* The line add writes to the stream file.
AddWrite(lg, ev) == Append(lg, json_line(ev))

\* Whether add makes a snapshot after this append.
SnapshotDue(c, every) == c % every = 0

\* add(event): s is the sink's state [log, count, files, every]; the result
\* adds what was uploaded, the snapshot made (if any) and whether add raised.
add(s, ev, wr, up, sn, t) ==
    IF wr = "fail"
    THEN [log |-> s.log, count |-> s.count, files |-> s.files,
          ups |-> <<>>, snap |-> <<>>, raised |-> TRUE]
    ELSE LET lg1 == AddWrite(s.log, ev)
             c1 == s.count + 1
             u == _upload_stream(up, lg1, t)
         IN IF u.raised
            THEN [log |-> lg1, count |-> c1, files |-> s.files,
                  ups |-> u.ups, snap |-> <<>>, raised |-> TRUE]
            ELSE IF SnapshotDue(c1, s.every)
            THEN LET m == _make_snapshot(s.files, lg1, t, sn) IN
                 IF m.raised
                 THEN [log |-> lg1, count |-> c1, files |-> m.files,
                       ups |-> u.ups, snap |-> <<>>, raised |-> TRUE]
                 ELSE LET v == _upload_snapshot(up, m.files, m.path) IN
                      [log |-> lg1, count |-> c1, files |-> m.files,
                       ups |-> u.ups \o v.ups, snap |-> <<m.path>>,
                       raised |-> v.raised]
            ELSE [log |-> lg1, count |-> c1, files |-> s.files,
                  ups |-> u.ups, snap |-> <<>>, raised |-> FALSE]

\* Mutant: no final snapshot when the last add already made one.
finish_skip_aligned(s, up, sn, t) ==
    LET m == _make_snapshot(s.files, s.log, t, sn) IN
    IF s.count > 0 /\ SnapshotDue(s.count, s.every)
    THEN [log |-> s.log, count |-> s.count, files |-> s.files,
          ups |-> <<>>, snap |-> <<>>, raised |-> FALSE]
    ELSE IF m.raised
    THEN [log |-> s.log, count |-> s.count, files |-> m.files,
          ups |-> <<>>, snap |-> <<>>, raised |-> FALSE]
    ELSE LET v == _upload_snapshot(up, m.files, m.path) IN
         [log |-> s.log, count |-> s.count, files |-> m.files,
          ups |-> v.ups, snap |-> <<m.path>>, raised |-> FALSE]

\* finish(): one snapshot, any exception swallowed.
finish(s, up, sn, t) ==
    LET m == _make_snapshot(s.files, s.log, t, sn) IN
    IF m.raised
    THEN [log |-> s.log, count |-> s.count, files |-> m.files,
          ups |-> <<>>, snap |-> <<>>, raised |-> FALSE]
    ELSE LET v == _upload_snapshot(up, m.files, m.path) IN
         [log |-> s.log, count |-> s.count, files |-> m.files,
          ups |-> v.ups, snap |-> <<m.path>>, raised |-> FALSE]

\* ------------------------------------------------- record of a container
\* A container <div class="group mb-6">: its id attribute ("" when it has
\* none), the nodes inside it and the text they hold.  smalls are the
\* <div>s carrying the class text-xs, in document order; club marks the
\* one whose class attribute is exactly "text-xs mb-0.5 mt-0.5".
Ids == {"", "event-card-abc123", "e7"}
Texts == {"", " Club  Royal ", "Madrid / Spain", "Hall / North"}
Smalls == [text : Texts, club : BOOLEAN]
StatusTexts == {"Finalizado", "Abierto"}
Containers ==
    [id : Ids, info_div : BOOLEAN, name : BOOLEAN,
     smalls : SeqsUpTo(Smalls, MaxSmalls), status : {"none"} \cup StatusTexts,
     info : BOOLEAN, participants : BOOLEAN, runs : BOOLEAN, flag : BOOLEAN]
EmptyContainer ==
    [id |-> "", info_div |-> FALSE, name |-> FALSE, smalls |-> <<>>,
     status |-> "none", info |-> FALSE, participants |-> FALSE, runs |-> FALSE,
     flag |-> FALSE]
NameText == "  Spring  Trial  "
FlagText == "ES"
\* The href of the anchors of an event, as path segments.
Href(id, tail) == <<"/zone/events/", id, tail>>

NoRecord == [k \in {} |-> ""]
\* d[k] = v when cond holds.
Field(cond, k, v) == IF cond THEN k :> v ELSE NoRecord

\* _clean: runs of blanks collapsed, blanks and punctuation stripped.
_clean(t) ==
    CASE t = " Club  Royal " -> "Club Royal"
      [] t = NameText -> "Spring Trial"
      [] OTHER -> t
\* get_text(strip=True): blanks stripped at both ends only.
strip(t) ==
    CASE t = " Club  Royal " -> "Club  Royal"
      [] t = NameText -> "Spring  Trial"
      [] OTHER -> t
\* event_id.replace('event-card-', '')
StripPrefix(id) == IF id = "event-card-abc123" THEN "abc123" ELSE id
\* urljoin(BASE, href) for an absolute path.
urljoin(base, href) == <<base>> \o href
HasSlash(t) == t \in {"Madrid / Spain", "Hall / North"}
HasCountry(t) == t = "Madrid / Spain"
\* The first index of q satisfying P, 0 when none does.
FirstIdx(q, P(_)) ==
    IF \E k \in DOMAIN q : P(q[k])
    THEN CHOOSE k \in DOMAIN q : P(q[k]) /\ \A j \in 1..(k - 1) : ~P(q[j])
    ELSE 0

\* flow_events.py: the dict ev built from container c in extract_events.
extract_flow(c) ==
    LET id == Field(c.id # "", "id", StripPrefix(c.id))
        sm == c.smalls
        IsClub(d) == d.club
        Plain(d) == _clean(d.text) # "" /\ ~HasSlash(_clean(d.text))
                                        /\ ~HasCountry(_clean(d.text))
        Strict(d) == HasSlash(_clean(d.text)) /\ HasCountry(_clean(d.text))
        Loose(d) == HasSlash(_clean(d.text))
        cl == FirstIdx(sm, IsClub)
        pl == FirstIdx(sm, Plain)
        st == FirstIdx(sm, Strict)
        lo == FirstIdx(sm, Loose)
        club == IF cl # 0 THEN "club" :> _clean(sm[cl].text)
                ELSE IF pl # 0 THEN "club" :> _clean(sm[pl].text)
                ELSE NoRecord
        lugar == IF st # 0 THEN "lugar" :> _clean(sm[st].text)
                 ELSE IF lo # 0 THEN "lugar" :> _clean(sm[lo].text)
                 ELSE NoRecord
        part == IF c.participants
                THEN "participantes" :> urljoin(BASE, Href(StripPrefix(c.id), "/participants_list"))
                ELSE IF c.id # ""
                THEN "participantes" :> <<BASE, "/zone/events/", StripPrefix(c.id),
                                         "/participants_list">>
                ELSE NoRecord
        enlaces == Field(c.info, "info", urljoin(BASE, Href(StripPrefix(c.id), "/info/")))
                   @@ part
    IN id
       @@ Field(c.name, "nombre", _clean(NameText))
       @@ Field(Len(sm) > 0, "fechas", IF Len(sm) > 0 THEN _clean(sm[1].text) ELSE "")
       @@ Field(Len(sm) > 1, "organizacion", IF Len(sm) > 1 THEN _clean(sm[2].text) ELSE "")
       @@ club
       @@ lugar
       @@ ("enlaces" :> enlaces)
       @@ ("pais_bandera" :> IF c.flag THEN _clean(FlagText) ELSE "flag-ES")

\* 01EventosPast.py: extract_event_details(str(container)).
extract_event_details(c) ==
    LET sm == IF c.info_div THEN c.smalls ELSE <<>>
        IsClub(d) == d.club
        Lugar(d) == HasSlash(strip(d.text)) /\ HasCountry(strip(d.text))
        cl == FirstIdx(sm, IsClub)
        lu == FirstIdx(sm, Lugar)
        estado == IF c.status # "none" THEN c.status ELSE "Finalizado"
        estado_tipo == IF c.status = "none" \/ c.status = "Finalizado"
                       THEN "finalizado" ELSE "desconocido"
        enlaces ==
            Field(c.info, "info", urljoin(BASE, Href(StripPrefix(c.id), "/info/")))
            @@ Field(c.participants, "participantes",
                     urljoin(BASE, Href(StripPrefix(c.id), "/participants_list")))
            @@ Field(c.runs, "runs", urljoin(BASE, Href(StripPrefix(c.id), "/runs")))
    IN ("id" :> c.id)
       @@ Field(Len(sm) > 0, "fechas", IF Len(sm) > 0 THEN strip(sm[1].text) ELSE "")
       @@ Field(Len(sm) > 1, "organizacion", IF Len(sm) > 1 THEN strip(sm[2].text) ELSE "")
       @@ Field(c.info_div /\ c.name, "nombre", strip(NameText))
       @@ Field(cl # 0, "club", IF cl # 0 THEN strip(sm[cl].text) ELSE "")
       @@ Field(lu # 0, "lugar", IF lu # 0 THEN strip(sm[lu].text) ELSE "")
       @@ ("estado" :> estado)
       @@ ("estado_tipo" :> estado_tipo)
       @@ ("enlaces" :> enlaces)
       @@ Field(c.flag, "pais_bandera", strip(FlagText))
       @@ ("tipo" :> "pasado")

\* ------------------------------------------------------------------ state
VARIABLES
    clock,             \* wall-clock time, in seconds
    streamExists,      \* OUT_DIR/events_stream.jsonl exists
    log,               \* its lines
    snapFiles,         \* OUT_DIR/events_stream_<ts>.jsonl.gz: name -> content
    pc,                \* where main / extract_events stands
    driver,            \* the browser: "none", "open" or "quit"
    count,             \* EventStreamer.count
    snapshot_every,    \* EventStreamer.snapshot_every
    event_containers,  \* the containers found on the page
    idx,               \* the container the loop is at
    events,            \* the in-memory batch
    batch,             \* what this run wrote to 01events.json: <<>> or <<array>>
    result,            \* what extract_events gave main
    exitCode,          \* the process exit code (-1: none yet)
    streamer,          \* "none", or "live" once EventStreamer() is constructed
    made,              \* names _make_snapshot returned during this run
    ioFault,           \* a file operation of the sink failed during this run
    skipped,           \* containers whose parsing raised during this run
    addCalls,          \* calls of streamer.add during this run
    logAtInit,         \* the log as the sink found it when constructed
    lastOp,            \* the sink's last call: what it uploaded, whether it raised
    \* ---- 01EventosPast.py
    entry,             \* what is being run: "none", "main" or "ensure"
    ppc,               \* where main / _handle_pagination stands
    pdriver,           \* the browser: "none", "open" or "quit"
    perror,            \* main caught and logged an exception
    page_count,        \* _handle_pagination: page_count
    events_data,       \* _handle_pagination: len(events_data)
    lastNext,          \* how the last attempt to reach the next page ended
    returned,          \* len of what _handle_pagination returned (-1: nothing yet)
    max_tries,         \* _ensure_logged_in: max_tries
    tries,             \* _ensure_logged_in: iterations of its loop begun
    attempts,          \* _ensure_logged_in: calls of _login made
    onLogin,           \* _is_login_page(driver)
    ens,               \* _ensure_logged_in: "running", "True", "False" or the exception
    \* ---- the record built from one container
    container,         \* the container handed to the extraction
    extractor,         \* whose extraction ran: "none", "flow" or "past"
    event_data,        \* the record it built
    \* ---- _full_scroll
    sver,              \* whose _full_scroll runs: "none", "flow" or "past"
    MAX_SCROLLS,       \* the module-level MAX_SCROLLS of that script
    spc,               \* "start", "loop", "broke" or "exhausted"
    scrolls,           \* iterations of the loop begun
    last_h,            \* last_h
    new_h              \* the height the last iteration read

streamVars == <<streamExists, log, snapFiles>>
sinkVars == <<streamer, count, snapshot_every, made, ioFault, addCalls,
              logAtInit, lastOp>>
loopVars == <<event_containers, idx, events, skipped, batch>>
flowVars == <<clock, streamVars, sinkVars, loopVars, pc, driver, result, exitCode>>
pagVars == <<ppc, pdriver, perror, page_count, events_data, lastNext, returned>>
ensVars == <<max_tries, tries, attempts, onLogin, ens>>
pastVars == <<entry, pagVars, ensVars>>
extractVars == <<container, extractor, event_data>>
scrollVars == <<sver, MAX_SCROLLS, spc, scrolls, last_h, new_h>>
fnVars == <<extractVars, scrollVars>>
vars == <<flowVars, pastVars, fnVars>>

NoOp == [op |-> "none", up |-> "unused", ups |-> <<>>, raised |-> FALSE]

\* The memory of a process that has not started the sink or the loop.
FreshProcess ==
    /\ streamer' = "none"
    /\ ioFault' = FALSE
    /\ count' = 0
    /\ snapshot_every' = 1
    /\ event_containers' = <<>>
    /\ idx' = 1
    /\ events' = <<>>
    /\ batch' = <<>>
    /\ made' = <<>>
    /\ skipped' = {}
    /\ addCalls' = 0
    /\ logAtInit' = <<>>
    /\ lastOp' = NoOp

InitFlow ==
    /\ clock = 0
    /\ streamExists = FALSE
    /\ log = <<>>
    /\ snapFiles = NoFiles
    /\ pc = "start"
    /\ driver = "none"
    /\ streamer = "none"
    /\ ioFault = FALSE
    /\ count = 0
    /\ snapshot_every = 1
    /\ event_containers = <<>>
    /\ idx = 1
    /\ events = <<>>
    /\ batch = <<>>
    /\ result = "unset"
    /\ exitCode = -1
    /\ made = <<>>
    /\ skipped = {}
    /\ addCalls = 0
    /\ logAtInit = <<>>
    /\ lastOp = NoOp

\* 01EventosPast.py before anything of it runs.
InitPag ==
    /\ ppc = "start"
    /\ pdriver = "none"
    /\ perror = FALSE
    /\ page_count = 0
    /\ events_data = 0
    /\ lastNext = "none"
    /\ returned = -1

InitEns ==
    /\ tries = 0
    /\ attempts = 0
    /\ ens = "running"

\* No extraction has run.
IdleExtract ==
    /\ container = EmptyContainer
    /\ extractor = "none"
    /\ event_data = NoRecord

\* _full_scroll before its first statement.
InitScroll ==
    /\ spc = "start"
    /\ scrolls = 0
    /\ last_h = 0
    /\ new_h = 0

IdleScroll ==
    /\ sver = "none"
    /\ MAX_SCROLLS = 0
    /\ InitScroll

IdlePast ==
    /\ entry = "none"
    /\ InitPag
    /\ InitEns
    /\ max_tries = 0
    /\ onLogin = FALSE

Init ==
    /\ InitFlow
    /\ IdlePast
    /\ IdleExtract
    /\ IdleScroll

\* ------------------------------------------------------- flow_events.py
\* _login(driver): True only when the browser ends up off the login page.
_login(o) == o \in {"already", "redirected"}

\* Where the container loop goes after container i of n.
LoopNext(i, n) == IF i + 1 > n THEN "finalize" ELSE "collect"

\* Mutant: the record is not put in the batch.
AppendEvent_skip(evs, ev) == evs

\* events.append(ev), before streamer.add(ev).
AppendEvent(evs, ev) == Append(evs, ev)

\* Mutant: the exception reaches the outer handler of extract_events.
OnContainerError_propagate(i, n) == "returned"

\* Where the run goes when handling container i of n raised: both handlers
\* log and go on with the loop.
OnContainerError(i, n) == LoopNext(i, n)

\* main: ok = bool(events); sys.exit(0 if main() else 1).
ExitStatus(res, evs) == IF res = "events" /\ evs # <<>> THEN 0 ELSE 1

\* except Exception -> return None; finally -> driver.quit().
FailInTry ==
    /\ result' = "None"
    /\ driver' = "quit"
    /\ pc' = "returned"

\* extract_events up to _get_driver.
StartRun ==
    /\ UNCHANGED <<pastVars, fnVars>>
    /\ pc = "start"
    /\ \E sel \in BOOLEAN, d \in {"ok", "none"} :
         IF ~sel \/ d = "none"
         THEN /\ result' = "None"
              /\ pc' = "returned"
              /\ UNCHANGED driver
         ELSE /\ driver' = "open"
              /\ pc' = "streamer"
              /\ UNCHANGED result
    /\ UNCHANGED <<clock, streamVars, sinkVars, loopVars, exitCode>>

\* streamer = EventStreamer(), before the try block.
MakeStreamer ==
    /\ UNCHANGED <<pastVars, fnVars>>
    /\ pc = "streamer"
    /\ \E io \in {"ok", "fail"}, up \in {"absent", "ok"}, raw \in 0..MaxEvery :
         IF InitOutcome(io, up) # "ok"
         THEN /\ result' = InitOutcome(io, up)
              /\ pc' = "returned"
              /\ UNCHANGED <<streamVars, sinkVars>>
         ELSE /\ streamer' = "live"
              /\ snapshot_every' = Max(1, raw)
              /\ count' = 0
              /\ log' = InitStream(streamExists, log)
              /\ logAtInit' = InitStream(streamExists, log)
              /\ streamExists' = TRUE
              /\ pc' = "login"
              /\ UNCHANGED <<snapFiles, made, ioFault, addCalls, lastOp, result>>
    /\ UNCHANGED <<clock, loopVars, driver, exitCode>>

\* if not _login(driver): raise.  _login sleeps at least two seconds.
Login ==
    /\ UNCHANGED <<pastVars, fnVars>>
    /\ pc = "login"
    /\ clock + LoginSleep <= MaxClock
    /\ clock' = clock + LoginSleep
    /\ \E o \in LoginOutcomes :
         IF _login(o)
         THEN pc' = "navigate" /\ UNCHANGED <<result, driver>>
         ELSE FailInTry
    /\ UNCHANGED <<streamVars, sinkVars, loopVars, exitCode>>

\* driver.get(EVENTS_URL) ... soup.find_all('div', class_='group mb-6').
Navigate ==
    /\ UNCHANGED <<pastVars, fnVars>>
    /\ pc = "navigate"
    /\ \E nav \in {"ok", "raise"} :
         IF nav = "raise"
         THEN FailInTry /\ UNCHANGED event_containers
         ELSE \E cs \in SeqsUpTo(ContainerKinds, MaxContainers) :
                /\ event_containers' = cs
                /\ pc' = LoopNext(0, Len(cs))
                /\ UNCHANGED <<result, driver>>
    /\ UNCHANGED <<clock, streamVars, sinkVars, idx, events, skipped, batch,
                   exitCode>>

\* One iteration of the container loop: parse the container, append the
\* record to events, hand it to streamer.add.  Both try blocks are inside.
ProcessContainer ==
    /\ UNCHANGED <<pastVars, fnVars>>
    /\ pc = "collect"
    /\ idx <= Len(event_containers)
    /\ LET c == event_containers[idx]
           n == Len(event_containers)
           s == [log |-> log, count |-> count, files |-> snapFiles,
                 every |-> snapshot_every]
       IN IF c = "bad"
          THEN /\ skipped' = skipped \cup {idx}
               /\ pc' = OnContainerError(idx, n)
               /\ UNCHANGED <<events, streamVars, sinkVars>>
          ELSE /\ events' = AppendEvent(events, c)
               /\ \E wr \in WriteOutcomes, up \in UploadOutcomes, sn \in SnapOutcomes :
                    \* inputs a failed write or an undue snapshot never reads
                    /\ wr = "fail" => up = "absent" /\ sn = "ok"
                    /\ Len(log) >= MaxLines => wr = "fail"
                    /\ ~SnapshotDue(count + 1, snapshot_every) => sn = "ok"
                    /\ LET r == add(s, c, wr, up, sn, clock)
                       IN /\ log' = r.log
                          /\ count' = r.count
                          /\ snapFiles' = r.files
                          /\ made' = made \o r.snap
                          /\ addCalls' = addCalls + 1
                          /\ ioFault' = (ioFault \/ r.raised)
                          /\ lastOp' = [op |-> "add",
                                        up |-> IF wr = "ok" THEN up ELSE "unused",
                                        ups |-> r.ups, raised |-> r.raised]
                          /\ pc' = IF r.raised THEN OnContainerError(idx, n)
                                   ELSE LoopNext(idx, n)
               /\ UNCHANGED <<skipped, streamExists, streamer, snapshot_every,
                               logAtInit>>
    /\ idx' = idx + 1
    /\ IF pc' = "returned"
       THEN result' = "None" /\ driver' = "quit"
       ELSE UNCHANGED <<result, driver>>
    /\ UNCHANGED <<clock, event_containers, batch, exitCode>>

\* After the loop: write 01events_<date>.json and 01events.json, call
\* streamer.finish(), return events; finally driver.quit().
Finalize ==
    /\ UNCHANGED <<pastVars, fnVars>>
    /\ pc = "finalize"
    /\ \E bw \in {"ok", "fail"} :
         IF bw = "fail"
         THEN /\ FailInTry
              /\ UNCHANGED <<batch, streamVars, sinkVars>>
         ELSE /\ batch' = <<events>>
              /\ \E up \in UploadOutcomes, sn \in SnapOutcomes :
                   /\ sn # "ok" => up = "absent"
                   /\ LET s == [log |-> log, count |-> count, files |-> snapFiles,
                                every |-> snapshot_every]
                          r == finish(s, up, sn, clock)
                      IN /\ log' = r.log
                         /\ count' = r.count
                         /\ snapFiles' = r.files
                         /\ made' = made \o r.snap
                         /\ ioFault' = (ioFault \/ sn # "ok")
                         /\ lastOp' = [op |-> "finish",
                                       up |-> IF sn = "ok" THEN up ELSE "unused",
                                       ups |-> r.ups, raised |-> r.raised]
                         /\ IF r.raised
                            THEN FailInTry
                            ELSE /\ result' = "events"
                                 /\ driver' = "quit"
                                 /\ pc' = "returned"
              /\ UNCHANGED <<streamExists, streamer, snapshot_every, addCalls,
                              logAtInit>>
    /\ UNCHANGED <<clock, event_containers, idx, events, skipped, exitCode>>

\* main: events = extract_events(); ok = bool(events); an exception out of
\* extract_events gives False.  The process exits with that status.
MainReturn ==
    /\ UNCHANGED <<pastVars, fnVars>>
    /\ pc = "returned"
    /\ exitCode' = ExitStatus(result, events)
    /\ pc' = "exited"
    /\ FreshProcess
    /\ UNCHANGED <<clock, streamVars, driver, result>>

\* The process is killed while a run is under way.
Kill ==
    /\ UNCHANGED <<pastVars, fnVars>>
    /\ pc \notin {"start", "returned", "exited"}
    /\ pc' = "exited"
    /\ exitCode' = 137
    /\ result' = "killed"
    /\ FreshProcess
    /\ UNCHANGED <<clock, streamVars, driver>>

\* The script is started again on the same output directory.
NewRun ==
    /\ UNCHANGED <<pastVars, fnVars>>
    /\ pc = "exited"
    /\ pc' = "start"
    /\ driver' = "none"
    /\ result' = "unset"
    /\ exitCode' = -1
    /\ UNCHANGED <<clock, streamVars, sinkVars, loopVars>>

\* A second passes.
Tick ==
    /\ UNCHANGED <<pastVars, fnVars>>
    /\ clock < MaxClock
    /\ clock' = clock + 1
    /\ UNCHANGED <<streamVars, sinkVars, loopVars, pc, driver, result, exitCode>>

Next ==
    \/ StartRun
    \/ MakeStreamer
    \/ Login
    \/ Navigate
    \/ ProcessContainer
    \/ Finalize
    \/ MainReturn
    \/ Kill
    \/ NewRun
    \/ Tick

Spec == Init /\ [][Next]_vars

\* ------------------------------------------------------ 01EventosPast.py
\* Mutant: while True.
PageGuard_unbounded(n) == TRUE

\* while page_count < max_pages
PageGuard(n) == n < max_pages

\* _login(driver, ...): both waits raise TimeoutException when they run out;
\* nothing in _login or _ensure_logged_in catches it.
_login_past(o) == IF o = "redirected" THEN "returned" ELSE "TimeoutException"

\* The exception handler and the finally block of main.
PastFail ==
    /\ perror' = TRUE
    /\ ppc' = "done"
    /\ pdriver' = "quit"

\* main: driver = _get_driver(), outside the try block; _login(driver, ...).
PastLogin ==
    /\ entry = "main"
    /\ ppc = "start"
    /\ \E d \in {"ok", "raise"}, o \in {"redirected", "timeout"} :
         IF d = "raise"
         THEN ppc' = "crashed" /\ UNCHANGED <<pdriver, perror>>
         ELSE IF _login_past(o) = "returned"
         THEN ppc' = "navigate" /\ pdriver' = "open" /\ UNCHANGED perror
         ELSE PastFail
    /\ UNCHANGED <<flowVars, fnVars, entry, page_count, events_data, lastNext, returned,
                   ensVars>>

\* main: driver.get(EVENTS_URL), wait for <body>, _accept_cookies.
PastNavigate ==
    /\ entry = "main"
    /\ ppc = "navigate"
    /\ \E nav \in {"ok", "raise"} :
         IF nav = "ok"
         THEN ppc' = "paginate" /\ UNCHANGED <<pdriver, perror>>
         ELSE PastFail
    /\ UNCHANGED <<flowVars, fnVars, entry, page_count, events_data, lastNext, returned,
                   ensVars>>

\* One iteration of the page loop of _handle_pagination: scroll, parse the
\* page's containers (a container that raises is skipped), try to reach the
\* next page.
PageIter ==
    /\ entry = "main"
    /\ ppc = "paginate"
    /\ PageGuard(page_count)
    /\ page_count' = page_count + 1
    /\ \E scroll \in {"ok", "raise"} :
         IF scroll = "raise"
         THEN /\ PastFail
              /\ UNCHANGED <<events_data, lastNext>>
         ELSE \E n \in 0..MaxPerPage, nx \in {"ok", "timeout", "nosuch", "error"} :
              \E bad \in 0..n :
                /\ events_data' = events_data + (n - bad)
                /\ lastNext' = nx
                /\ ppc' = IF nx = "ok" THEN "paginate" ELSE "pag_return"
                /\ UNCHANGED <<pdriver, perror>>
    /\ UNCHANGED <<flowVars, fnVars, entry, returned, ensVars>>

\* _handle_pagination returns events_data: after a break, or when the loop
\* condition fails.
PageReturn ==
    /\ entry = "main"
    /\ \/ ppc = "pag_return"
       \/ ppc = "paginate" /\ ~PageGuard(page_count)
    /\ returned' = events_data
    /\ ppc' = "save"
    /\ UNCHANGED <<flowVars, fnVars, entry, pdriver, perror, page_count, events_data,
                   lastNext, ensVars>>

\* main: write 01events_past.json, print the summary; finally driver.quit().
PastSave ==
    /\ entry = "main"
    /\ ppc = "save"
    /\ \E io \in {"ok", "fail"} :
         IF io = "fail"
         THEN PastFail
         ELSE ppc' = "done" /\ pdriver' = "quit" /\ UNCHANGED perror
    /\ UNCHANGED <<flowVars, fnVars, entry, page_count, events_data, lastNext, returned,
                   ensVars>>

\* One iteration of the loop of _ensure_logged_in.
EnsureIter ==
    /\ entry = "ensure"
    /\ ens = "running"
    /\ tries < max_tries
    /\ tries' = tries + 1
    /\ IF ~onLogin
       THEN /\ ens' = "True"
            /\ UNCHANGED <<attempts, onLogin>>
       ELSE /\ attempts' = attempts + 1
            /\ \E o \in {"redirected", "timeout"} :
                 IF _login_past(o) = "returned"
                 THEN \E still \in BOOLEAN :
                        /\ onLogin' = still
                        /\ ens' = IF still THEN "running" ELSE "True"
                 ELSE /\ ens' = _login_past(o)
                      /\ UNCHANGED onLogin
    /\ UNCHANGED <<flowVars, fnVars, entry, pagVars, max_tries>>

\* The loop of _ensure_logged_in ran max_tries times: return False.
EnsureExhausted ==
    /\ entry = "ensure"
    /\ ens = "running"
    /\ tries >= max_tries
    /\ ens' = "False"
    /\ UNCHANGED <<flowVars, fnVars, entry, pagVars, max_tries, tries, attempts, onLogin>>

InitPast ==
    /\ InitFlow
    /\ IdleExtract
    /\ IdleScroll
    /\ InitPag
    /\ InitEns
    /\ entry \in {"main", "ensure"}
    /\ IF entry = "ensure"
       THEN max_tries \in 0..MaxTries /\ onLogin \in BOOLEAN
       ELSE max_tries = 0 /\ onLogin = FALSE

NextPast ==
    \/ PastLogin
    \/ PastNavigate
    \/ PageIter
    \/ PageReturn
    \/ PastSave
    \/ EnsureIter
    \/ EnsureExhausted

SpecPast == InitPast /\ [][NextPast]_vars

\* ------------------------------------------- the record of one container
\* What flow_events.py never looks at: the status node, the runs anchor and
\* the inner info <div>.
FlowReads(c) == c.status = "none" /\ ~c.runs /\ ~c.info_div

\* extract_events: the body of the container loop up to events.append(ev).
ExtractFlow ==
    /\ extractor = "none"
    /\ FlowReads(container)
    /\ extractor' = "flow"
    /\ event_data' = extract_flow(container)
    /\ UNCHANGED <<flowVars, pastVars, scrollVars, container>>

\* _handle_pagination: event_data = extract_event_details(str(container)).
ExtractPast ==
    /\ extractor = "none"
    /\ extractor' = "past"
    /\ event_data' = extract_event_details(container)
    /\ UNCHANGED <<flowVars, pastVars, scrollVars, container>>

InitExtract ==
    /\ InitFlow
    /\ IdlePast
    /\ IdleScroll
    /\ container \in Containers
    /\ extractor = "none"
    /\ event_data = NoRecord

NextExtract ==
    \/ ExtractFlow
    \/ ExtractPast

SpecExtract == InitExtract /\ [][NextExtract]_vars

\* ----------------------------------------------------------- _full_scroll
\* Mutant: while True.
ScrollGuard_unbounded(n, cap) == TRUE

\* for _ in range(MAX_SCROLLS)
ScrollGuard(n, cap) == n < cap

\* The statement before the loop: flow_events.py reads the document height,
\* 01EventosPast.py starts from last_h = 0.
ScrollStart ==
    /\ sver # "none"
    /\ spc = "start"
    /\ IF sver = "flow"
       THEN last_h' \in 0..MaxHeight
       ELSE last_h' = 0
    /\ spc' = "loop"
    /\ UNCHANGED <<flowVars, pastVars, extractVars, sver, MAX_SCROLLS, scrolls, new_h>>

\* One iteration: scroll to the bottom, sleep, read the height, break when
\* it equals last_h.
ScrollIter ==
    /\ sver # "none"
    /\ spc = "loop"
    /\ ScrollGuard(scrolls, MAX_SCROLLS)
    /\ scrolls' = scrolls + 1
    /\ \E h \in 0..MaxHeight :
         /\ new_h' = h
         /\ IF h = last_h
            THEN spc' = "broke" /\ UNCHANGED last_h
            ELSE spc' = "loop" /\ last_h' = h
    /\ UNCHANGED <<flowVars, pastVars, extractVars, sver, MAX_SCROLLS>>

\* range(MAX_SCROLLS) is exhausted: the function returns.
ScrollExhausted ==
    /\ sver # "none"
    /\ spc = "loop"
    /\ ~ScrollGuard(scrolls, MAX_SCROLLS)
    /\ spc' = "exhausted"
    /\ UNCHANGED <<flowVars, pastVars, extractVars, sver, MAX_SCROLLS, scrolls,
                   last_h, new_h>>

InitScrollSpec ==
    /\ InitFlow
    /\ IdlePast
    /\ IdleExtract
    /\ InitScroll
    /\ sver \in {"flow", "past"}
    /\ IF sver = "flow"
       THEN MAX_SCROLLS \in (0..MaxScrollsEnv) \cup {MAX_SCROLLS_flow}
       ELSE MAX_SCROLLS = MAX_SCROLLS_past

NextScroll ==
    \/ ScrollStart
    \/ ScrollIter
    \/ ScrollExhausted

SpecScroll == InitScrollSpec /\ [][NextScroll]_vars

\* ================================================================ claims
\* The lines the sink writes for the records of evs, in order.
Lines(evs) == [k \in 1..Len(evs) |-> [json |-> evs[k]]]
\* The uploads of the stream file among ups.
StreamUploads(ups) == {k \in DOMAIN ups : ups[k].path = "stream"}
\* A step in which streamer.add was called / wrote its line / made the
\* snapshot that was due (or none was due).
AddStep == addCalls' = addCalls + 1
AddWrote == AddStep /\ count' = count + 1
AddSnapshotOk == (count' % snapshot_every = 0) => Len(made') = Len(made) + 1

\* C1 (as stated): the log line count after N appends equals N.
C1_Original == streamer = "live" => Len(log) = count

\* C1 (amended): add never deduplicates.  After N appends by a sink the log
\* holds the lines it held when the sink was constructed plus N more, and as
\* long as every add succeeded those N lines are the records handed to add,
\* one line each, duplicates included.
C1_NoDedup ==
    streamer = "live" =>
        /\ Len(log) = Len(logAtInit) + count
        /\ ~ioFault => log = logAtInit \o Lines(events)

\* C1 witness: the same record was added twice and is in the log twice.
C1_Witness ==
    /\ streamer = "live" /\ ~ioFault
    /\ events = <<"r1", "r1">>
    /\ log = <<[json |-> "r1"], [json |-> "r1"]>>

\* C2 (as stated): with snapshot_every = k, after m*k adds exactly m snapshot
\* files have been produced, and finish() produces one more.
C2_Claim ==
    (streamer = "live" /\ ~ioFault) =>
        IF lastOp.op = "finish"
        THEN Cardinality(Range(made)) = (count \div snapshot_every) + 1
        ELSE count % snapshot_every = 0 =>
                 Cardinality(Range(made)) = count \div snapshot_every

\* C3: no step ever rolls back the stream log: its content before a step is
\* a prefix of its content after it, restarts after failed runs included.
C3_LogPrefix == [][IsPrefix(log, log')]_vars

\* C3 witness: a restarted run found lines of an earlier run and added more.
C3_Witness ==
    /\ streamer = "live"
    /\ Len(logAtInit) > 0
    /\ Len(log) > Len(logAtInit)

\* C4 (as stated): every call to add publishes the entire stream log once,
\* under the day-stamped name, after the record was written.
C4_Original ==
    [][AddStep =>
        /\ Cardinality(StreamUploads(lastOp'.ups)) = 1
        /\ lastOp'.ups[1].path = "stream"
        /\ lastOp'.ups[1].name = <<"events_stream", clock \div DayLen>>
        /\ lastOp'.ups[1].content = log'
        /\ log'[Len(log')] = [json |-> events'[Len(events')]]]_vars

\* C4 (amended): every call to add that writes its record and finds the
\* uploader script present publishes the entire stream log exactly once,
\* under the day-stamped name, after the record was written.
C4_PublishAfterWrite ==
    [][(AddWrote /\ lastOp'.up # "absent") =>
        /\ Cardinality(StreamUploads(lastOp'.ups)) = 1
        /\ lastOp'.ups[1].path = "stream"
        /\ lastOp'.ups[1].name = <<"events_stream", clock \div DayLen>>
        /\ lastOp'.ups[1].content = log'
        /\ log'[Len(log')] = [json |-> events'[Len(events')]]]_vars

\* C4 witness: an add published a log of two lines that ends with its record.
C4_Witness ==
    /\ lastOp.op = "add" /\ lastOp.up = "ok"
    /\ Len(log) = 2
    /\ Len(lastOp.ups) >= 1
    /\ lastOp.ups[1].content = log

\* C5: a publish failure never aborts the run.  An add whose file operations
\* succeed returns normally whatever the uploader does, and the loop goes on;
\* finish never raises; a missing uploader never makes the constructor raise.
C5_PublishNeverAborts ==
    [][/\ (AddWrote /\ AddSnapshotOk) =>
              (~lastOp'.raised /\ pc' = LoopNext(idx, Len(event_containers)))
       /\ (lastOp'.op = "finish" /\ lastOp.op # "finish") =>
              (~lastOp'.raised /\ result' = "events")
       /\ result' # "FileNotFoundError"]_vars

\* C5 witness: the uploader failed during an add, the add returned normally
\* and further containers are still to be processed.
C5_Witness ==
    /\ lastOp.op = "add"
    /\ lastOp.up \in {"nonzero", "nolaunch"}
    /\ ~lastOp.raised
    /\ pc = "collect"

\* C6: a container whose parsing or streaming fails never ends the loop: the
\* run leaves the loop only after every container was tried, each one either
\* skipped (parsing raised) or handed to the sink, and then finalizes.
C6_Isolation ==
    /\ pc = "collect" => idx <= Len(event_containers)
    /\ (pc \in {"finalize", "returned"} /\ Len(event_containers) > 0) =>
           /\ idx = Len(event_containers) + 1
           /\ addCalls + Cardinality(skipped) = Len(event_containers)
           /\ Len(events) = addCalls

\* C6 witness: the first container failed, the second was handed to the
\* sink, and the run is finalizing.
C6_Witness ==
    /\ pc = "finalize"
    /\ skipped = {1}
    /\ Len(event_containers) = 2
    /\ addCalls = 1

\* C7 (as stated): a run that fails after the driver was created has quit
\* the driver by the time the failure reaches the caller.
C7_Claim ==
    (/\ pc \in {"returned", "exited"}
     /\ result \in {"None", "OSError", "FileNotFoundError"}
     /\ driver # "none") => driver = "quit"

\* C8 (as stated): the exit code is 0 exactly when the finalize step was
\* completed, whatever the number of records.
C8_Claim ==
    (pc = "exited" /\ exitCode \in {0, 1}) => (exitCode = 0 <=> result = "events")

\* C9 (as stated): a login that times out is retried.  _ensure_logged_in
\* returns True only off the login page, and ends without success only
\* after max_tries login attempts have been made.
C9_Claim ==
    entry = "ensure" =>
        /\ ens = "True" => ~onLogin
        /\ ens \notin {"running", "True"} => attempts = max_tries

\* C10: the page loop stops at the ceiling.  page_count never exceeds
\* max_pages; once max_pages pages were processed the loop cannot run again
\* and returns, even when the next page was reached every time; what it
\* returns is what it gathered.
C10_PageCeiling ==
    /\ page_count <= max_pages
    /\ (ppc = "paginate" /\ page_count >= max_pages) =>
           (ENABLED PageReturn /\ ~ENABLED PageIter)
    /\ ppc = "save" => returned = events_data

\* C10 witness: the loop ended after max_pages pages although the last
\* attempt to reach the next page succeeded, and returned its records.
C10_Witness ==
    /\ ppc = "save"
    /\ page_count = max_pages
    /\ lastNext = "ok"
    /\ returned = events_data
    /\ returned > 0

\* C11 (as stated): every transition of the page loop into a new page runs
\* the ensure-authenticated check before that page's containers are
\* extracted: once a second page has been processed, _ensure_logged_in has
\* been called and has returned.
C11_Claim ==
    (entry = "main" /\ page_count >= 2) => ens # "running"

\* C12 (as stated): a snapshot file, once produced, is never overwritten:
\* every step leaves each existing snapshot file in place with the content
\* it had (runs in which a file operation of the sink failed set aside).
C12_Claim ==
    [][~ioFault' =>
          \A n \in DOMAIN snapFiles :
              n \in DOMAIN snapFiles' /\ snapFiles'[n] = snapFiles[n]]_vars

\* C13 (as stated): for a container lacking every recognized node and
\* attribute the extraction returns a record with zero fields.
C13_Claim ==
    (extractor # "none" /\ container = EmptyContainer) => DOMAIN event_data = {}

\* A step in which the run leaves Finalizing on its own (it is not killed).
FinalizeStep == pc = "finalize" /\ pc' = "returned"

C16_SnapshotWholeLog ==
    [][Len(made') = Len(made) + 1 =>
          /\ snapFiles'[made'[Len(made')]] = log'
          /\ IsPrefix(logAtInit', log')
          /\ lastOp'.op = "add" =>
                 /\ Len(log') = Len(log) + 1
                 /\ log'[Len(log')] = [json |-> events'[Len(events')]]]_vars

\* C16 witness: an add of a restarted run made a snapshot that holds the
\* lines of the earlier run and the line just appended.
C16_Witness ==
    /\ lastOp.op = "add"
    /\ made # <<>>
    /\ Len(logAtInit) > 0
    /\ Len(log) > Len(logAtInit)
    /\ snapFiles[made[Len(made)]] = log

\* a is a subsequence of b: its elements occur in b in the same order.
RECURSIVE IsSubseq(_, _)
IsSubseq(a, b) ==
    IF a = <<>> THEN TRUE
    ELSE IF b = <<>> THEN FALSE
    ELSE IF a[1] = b[1] THEN IsSubseq(Tail(a), Tail(b))
    ELSE IsSubseq(a, Tail(b))

\* The lines this run appended to the stream log.
RunLines == SubSeq(log, Len(logAtInit) + 1, Len(log))

\* C17: within a run the lines appended to the stream log are, in order, a
\* subsequence of the lines of the in-memory batch; every record handed to
\* add is already in the batch, streamed or not; the batch file holds the
\* in-memory batch.
C17_LogWithinBatch ==
    streamer = "live" =>
        /\ IsSubseq(RunLines, Lines(events))
        /\ Len(events) = addCalls
        /\ count <= addCalls
        /\ batch # <<>> => batch[1] = events

\* C17 witness: the first record could not be streamed, the second was;
\* both are in the batch file, only the second is in the log.
C17_Witness ==
    /\ streamer = "live"
    /\ events = <<"r1", "r2">>
    /\ batch = <<events>>
    /\ RunLines = <<[json |-> "r2"]>>

\* C15: _full_scroll runs at most MAX_SCROLLS iterations; an iteration ends
\* the loop exactly when the height it reads equals the height read before
\* it, and otherwise keeps that height for the next comparison; when
\* MAX_SCROLLS iterations have run the loop cannot run again and the
\* function returns, however the height went.
C15_ScrollBound ==
    [][/\ scrolls' = scrolls + 1 =>
              /\ scrolls < MAX_SCROLLS
              /\ (spc' = "broke") <=> (new_h' = last_h)
              /\ spc' # "broke" => (spc' = "loop" /\ last_h' = new_h')
       /\ (spc = "loop" /\ spc' = "exhausted") => scrolls = MAX_SCROLLS
       /\ (spc = "loop" /\ scrolls >= MAX_SCROLLS) =>
              (ENABLED ScrollExhausted /\ ~ENABLED ScrollIter)]_vars

\* C15 witness: the height changed at every one of MAX_SCROLLS reads and
\* the function returned after the last.
C15_Witness ==
    /\ sver = "flow"
    /\ MAX_SCROLLS = MAX_SCROLLS_flow
    /\ spc = "exhausted"
    /\ scrolls = MAX_SCROLLS
====
